---------------------------- MODULE Spec2Model ----------------------------
(***************************************************************************)
(* A model of fugue/_utils/io.py: the FileParser path classifier, the      *)
(* file enumerator _get_single_files, load_df / save_df and the CSV and    *)
(* Avro codecs' option handling.                                           *)
(*                                                                         *)
(* A path string is a sequence of symbols.  A symbol is one of the         *)
(* characters the code distinguishes ("/", "\\", "*", "?", ".") or a       *)
(* dot-free, separator-free word ("csv", "gz", ...), so that indexing,     *)
(* slicing and endswith on the sequence agree with the same operations on  *)
(* the characters of the string.                                           *)
(***************************************************************************)
EXTENDS Naturals, Integers, Sequences, FiniteSets, TLC

VARIABLES
    in_path,       \* FileParser: the path string given to the constructor
    in_hint,       \* FileParser: the format hint given to the constructor
    parser,        \* FileParser: the constructed object (or the error raised)
    no_glob,       \* FileParser: the outcome of assert_no_glob on it
    dest_uri,      \* save_df: the uri both calls save to
    dest,          \* save_df: what the file system holds at dest_uri
    save_args,     \* save_df: each call's format_hint and mode
    save_pc,       \* save_df: each call's position in the function body
    save_err,      \* save_df: the exception a call ended with ("" for none)
    trace,         \* save_df: the file-system and saver calls made, in order
    csv_columns,   \* _load_csv: the columns argument
    csv_kwargs,    \* _load_csv: the keyword options
    csv_result,    \* _load_csv: the exception raised or the read made and the schema returned
    avro_columns,  \* _save_avro: the columns argument
    avro_kwargs,   \* _save_avro: the keyword options
    avro_result,   \* _save_avro: the exception raised or the writer call made
    listing,       \* file system: the names in the directory, in listing order
    load_uri,      \* load_df: the uri argument, a list of path strings
    load_hint,     \* load_df: the format_hint argument
    load_columns,  \* load_df: the columns argument
    load_kwargs,   \* load_df: the keyword options handed to every loader
    stack,         \* _get_single_files: the generator frames, innermost last
    yielded,       \* _get_single_files: the parsers yielded so far, in order
    loads,         \* load_df: the loader calls made, in order
    dfs,           \* load_df: the frames appended to dfs, in order
    load_schema,   \* load_df: the local variable schema
    load_pc,       \* load_df: the position in the function body
    load_err,      \* load_df: the exception raised and where
    load_result    \* load_df: the rows and the schema of the returned frame

parserVars == <<in_path, in_hint, parser, no_glob>>
saveVars == <<dest_uri, dest, save_args, save_pc, save_err, trace>>

csvVars == <<csv_columns, csv_kwargs, csv_result>>
avroVars == <<avro_columns, avro_kwargs, avro_result>>

loadArgs == <<listing, load_uri, load_hint, load_columns, load_kwargs>>
loadVars == <<loadArgs, stack, yielded, loads, dfs, load_schema, load_pc,
              load_err, load_result>>

vars == <<parserVars, saveVars, csvVars, avroVars, loadVars>>

\* what the steps of one component leave alone
notParser == <<saveVars, csvVars, avroVars, loadVars>>
notSave == <<parserVars, csvVars, avroVars, loadVars>>
notCsv == <<parserVars, saveVars, avroVars, loadVars>>
notAvro == <<parserVars, saveVars, csvVars, loadVars>>
notLoad == <<parserVars, saveVars, csvVars, avroVars>>

\* ------------------------------------------------------------------ bounds
MaxLen == 5
MaxEntries == 3

\* ----------------------------------------------------------- the alphabet
Words == {"csv", "gz", "CSV"}
Chars == Words \cup {".", "/", "\\", "*", "?"}

Paths == UNION {[1..n -> Chars] : n \in 0..MaxLen}

None == "None"
Hints == {None, "", "csv", "avro", "xyz"}

\* str.lower() of one symbol
LowerChar(c) == IF c = "CSV" THEN "csv" ELSE c

Lower(s) == [i \in 1..Len(s) |-> LowerChar(s[i])]

\* s[a:] and s[:b] with Python's 0-based bounds
From(s, a) == SubSeq(s, a + 1, Len(s))
Upto(s, b) == SubSeq(s, 1, b)

\* str.endswith
EndsWith(s, k) ==
    /\ Len(k) <= Len(s)
    /\ SubSeq(s, Len(s) - Len(k) + 1, Len(s)) = k

\* ------------------------------------------------------ the format registry
\* _FORMAT_MAP, in declaration order (a dict iterates in insertion order)
FORMAT_MAP ==
    << [k |-> <<".", "csv">>,            v |-> "csv"],
       [k |-> <<".", "csv", ".", "gz">>,  v |-> "csv"],
       [k |-> <<".", "parquet">>,        v |-> "parquet"],
       [k |-> <<".", "json">>,           v |-> "json"],
       [k |-> <<".", "json", ".", "gz">>, v |-> "json"],
       [k |-> <<".", "avro">>,           v |-> "avro"],
       [k |-> <<".", "avro", ".", "gz">>, v |-> "avro"] >>

FormatValues == {FORMAT_MAP[i].v : i \in 1..Len(FORMAT_MAP)}

\* ------------------------------------------------------------- urlparse
\* index (0-based) of the first symbol of s that is in D, Len(s) when none
FirstIn(s, D) ==
    IF \E i \in 1..Len(s) : s[i] \in D
    THEN (CHOOSE i \in 1..Len(s) :
              /\ s[i] \in D
              /\ \A j \in 1..(i - 1) : s[j] \notin D) - 1
    ELSE Len(s)

\* urllib.parse.urlparse on a string without ":", "#" and ";": the scheme,
\* the fragment and the params are empty; "//" opens a netloc that ends at
\* the next "/" or "?"; the first "?" opens the query.
urlparse(url) ==
    LET hasNet == Len(url) >= 2 /\ url[1] = "/" /\ url[2] = "/"
        rest   == IF hasNet THEN From(url, 2) ELSE url
        cut    == IF hasNet THEN FirstIn(rest, {"/", "?"}) ELSE 0
        netloc == Upto(rest, cut)
        tail   == From(rest, cut)
        q      == FirstIn(tail, {"?"})
    IN  [netloc |-> netloc,
         path   |-> Upto(tail, q),
         query  |-> From(tail, q + 1)]

\* ParseResult.geturl() for an empty scheme
geturl(u) ==
    LET withNet == IF u.netloc # <<>>
                   THEN <<"/", "/">> \o u.netloc
                            \o (IF u.path # <<>> /\ u.path[1] # "/"
                                THEN <<"/">> ELSE <<>>)
                            \o u.path
                   ELSE u.path
    IN  IF u.query # <<>> THEN withNet \o <<"?">> \o u.query ELSE withNet

\* os.path.join(a, b) (posix)
os_path_join(a, b) ==
    IF b # <<>> /\ b[1] = "/" THEN b
    ELSE IF a = <<>> \/ a[Len(a)] = "/" THEN a \o b
    ELSE a \o <<"/">> \o b

\* ------------------------------------------------- pathlib.Path(..).suffixes
\* pathlib.PurePosixPath(p).name: the last component of p that is neither
\* empty nor "."
PathName(p) ==
    LET Start(i) == i = 1 \/ p[i - 1] = "/"
        End(j)   == j = Len(p) \/ p[j + 1] = "/"
        Comp(i, j) ==
            /\ i <= j
            /\ Start(i) /\ End(j)
            /\ \A m \in i..j : p[m] # "/"
            /\ SubSeq(p, i, j) # <<".">>
        Comps == {ij \in (1..Len(p)) \X (1..Len(p)) : Comp(ij[1], ij[2])}
    IN  IF Comps = {} THEN <<>>
        ELSE LET last == CHOOSE ij \in Comps : \A o \in Comps : o[1] <= ij[1]
             IN  SubSeq(p, last[1], last[2])

\* "".join(PurePath.suffixes) of a name
JoinedSuffixes(name) ==
    IF name = <<>> \/ name[Len(name)] = "." THEN <<>>
    ELSE LET lead     == FirstIn(name, {name[i] : i \in 1..Len(name)} \ {"."})
             stripped == From(name, lead)
             dot      == FirstIn(stripped, {"."})
         IN  From(stripped, dot)

\* FileParser.suffix
Suffix(path) == JoinedSuffixes(PathName(Lower(path)))

\* ------------------------------------------------------ FileParser.__init__
\* the scan of lines 19-26: has_glob, and the value of `last` when the loop
\* ends (0-based)
FirstGlob(path) == FirstIn(path, {"*", "?"})

HasGlob(path) == FirstGlob(path) < Len(path)

ScanLast(path) ==
    LET stop == FirstGlob(path)
        seps == {i \in 0..(Len(path) - 1) :
                     i <= stop /\ path[i + 1] \in {"/", "\\"}}
    IN  IF seps = {} THEN Len(path)
        ELSE CHOOSE i \in seps : \A j \in seps : j <= i

\* a registry lookup that tests containment instead of endswith
FirstMatch_Contains(suffix) ==
    LET Has(k) == \E a \in 0..(Len(suffix) - Len(k)) :
                      SubSeq(suffix, a + 1, a + Len(k)) = k
        hits == {i \in 1..Len(FORMAT_MAP) : Has(FORMAT_MAP[i].k)}
    IN  IF hits = {} THEN 0 ELSE CHOOSE i \in hits : \A j \in hits : i <= j

\* lines 37-41: the first registry entry, in declaration order, whose suffix
\* the path's suffix ends with; 0 when there is none
FirstMatch(suffix) ==
    LET hits == {i \in 1..Len(FORMAT_MAP) : EndsWith(suffix, FORMAT_MAP[i].k)}
    IN  IF hits = {} THEN 0 ELSE CHOOSE i \in hits : \A j \in hits : i <= j

\* lines 36-47: [err, format]
ResolveFormat(suffix, format_hint) ==
    IF format_hint = None \/ format_hint = ""
    THEN IF FirstMatch(suffix) # 0
         THEN [err |-> "", format |-> FORMAT_MAP[FirstMatch(suffix)].v]
         ELSE [err |-> "NotImplementedError", format |-> ""]
    ELSE IF format_hint \in FormatValues
         THEN [err |-> "", format |-> format_hint]
         ELSE [err |-> "NotImplementedError", format |-> ""]

\* lines 27-34: the split into uri, glob pattern and path
SplitGlob(path) ==
    IF ~HasGlob(path)
    THEN [uri |-> urlparse(path), glob_pattern |-> <<>>]
    ELSE [uri |-> urlparse(Upto(path, ScanLast(path))),
          glob_pattern |-> From(path, ScanLast(path) + 1)]

FileParser(path, format_hint) ==
    LET g     == SplitGlob(path)
        p     == IF ~HasGlob(path) THEN g.uri.path
                 ELSE os_path_join(g.uri.path, g.glob_pattern)
        r     == ResolveFormat(Suffix(p), format_hint)
    IN  [err          |-> r.err,
         uri          |-> geturl(g.uri),
         glob_pattern |-> g.glob_pattern,
         path         |-> p,
         suffix       |-> Suffix(p),
         file_format  |-> r.format]

\* FileParser.assert_no_glob: "" when it returns self
assert_no_glob(fp) ==
    IF fp.glob_pattern = <<>> THEN "" ELSE "AssertionError"

\* ---------------------------------------------- the parser as a state machine
NoFP == [err |-> "unbuilt", uri |-> <<>>, glob_pattern |-> <<>>, path |-> <<>>,
         suffix |-> <<>>, file_format |-> ""]

InitParser ==
    /\ in_path \in Paths
    /\ in_hint \in Hints
    /\ parser = NoFP
    /\ no_glob = "uncalled"

IdleParser ==
    /\ in_path = <<>>
    /\ in_hint = None
    /\ parser = NoFP
    /\ no_glob = "uncalled"

\* FileParser(in_path, in_hint)
Construct ==
    /\ parser = NoFP
    /\ parser' = FileParser(in_path, in_hint)
    /\ UNCHANGED <<in_path, in_hint, no_glob, notParser>>

\* parser.assert_no_glob() on a constructed parser
AssertNoGlob ==
    /\ parser.err = ""
    /\ no_glob = "uncalled"
    /\ no_glob' = (IF assert_no_glob(parser) = "" THEN "returned" ELSE assert_no_glob(parser))
    /\ UNCHANGED <<in_path, in_hint, parser, notParser>>

NextParser == Construct \/ AssertNoGlob

\* ------------------------------------------------------ claims on the parser
ContainsGlobChar(s) == \E i \in 1..Len(s) : s[i] \in {"*", "?"}

\* C1: every path that contains a "*" or "?" anywhere and whose format
\* resolves gets a non-empty glob_pattern, and assert_no_glob fails on it
\* instead of returning the parser.
C1_GlobAlwaysDetected ==
    (parser.err = "" /\ ContainsGlobChar(in_path))
        => /\ parser.glob_pattern # <<>>
           /\ no_glob # "returned"

\* the registry entries whose suffix s ends with
RegistryHits(s) == {i \in 1..Len(FORMAT_MAP) : EndsWith(s, FORMAT_MAP[i].k)}

LongestHit(s) ==
    CHOOSE i \in RegistryHits(s) :
        \A j \in RegistryHits(s) : Len(FORMAT_MAP[j].k) <= Len(FORMAT_MAP[i].k)

\* C2: without a hint (None or "") the format is the tag of the longest
\* registry suffix that the lower-cased compound suffix of the path's last
\* component ends with, and construction fails with NotImplementedError
\* when there is none; with a hint the format is the hint when it is a
\* registered format, whatever the suffix, and construction fails otherwise.
C2_FormatResolution ==
    parser # NoFP =>
        LET s == JoinedSuffixes(PathName(Lower(parser.path)))
        IN  IF in_hint \in {None, ""}
            THEN IF RegistryHits(s) # {}
                 THEN /\ parser.err = ""
                      /\ parser.file_format = FORMAT_MAP[LongestHit(s)].v
                 ELSE parser.err = "NotImplementedError"
            ELSE IF in_hint \in {"csv", "parquet", "json", "avro"}
                 THEN parser.err = "" /\ parser.file_format = in_hint
                 ELSE parser.err = "NotImplementedError"

\* a compound suffix resolved by inference
C2_Witness ==
    /\ in_hint = None
    /\ in_path = <<"gz", ".", "CSV", ".", "gz">>
    /\ parser.err = ""
    /\ parser.file_format = "csv"

\* ------------------------------------------------------------------ save_df
SaveCalls == {"c1", "c2"}

SaveUris == { <<"out", ".", "csv">>,         \* out.csv
              <<"out", ".", "xyz">>,         \* out.xyz
              <<"out">>,                     \* out
              <<"d", "/", "*", ".", "csv">> } \* d/*.csv

SaveHints == {None, "csv"}
SaveModes == {"overwrite", "error", "append"}

DestStates ==
    { [kind |-> "absent", by |-> "old"],
      [kind |-> "file",   by |-> "old"],
      [kind |-> "dir",    by |-> "old"] }

Event(c, op, ok, onto) == [call |-> c, op |-> op, ok |-> ok, onto |-> onto]

\* an existence check that never sees the destination
fs_exists_Never(d) == FALSE

\* line 111: fs.exists(uri)
fs_exists(d) == d.kind # "absent"

\* an existence check that lets every mode go on to the removal
MayReplace_Always(mode) == TRUE

\* line 112: assert_or_throw(mode == "overwrite", FileExistsError(uri))
MayReplace(mode) == mode = "overwrite"

\* lines 113-116: where the call goes after fs.remove
AfterRemove(ok) == IF ok THEN "save" ELSE "removetree"

\* a removetree whose failure is not suppressed
AfterRemoveTree_Propagate(ok) == IF ok THEN "save" ELSE "raised"

\* lines 116-120: where the call goes after fs.removetree (its failure is
\* suppressed)
AfterRemoveTree(ok) == "save"

InitSave ==
    /\ dest_uri \in SaveUris
    /\ dest \in DestStates
    /\ save_args \in [SaveCalls -> [format_hint : SaveHints, mode : SaveModes]]
    /\ save_pc = [c \in SaveCalls |-> "validate"]
    /\ save_err = [c \in SaveCalls |-> ""]
    /\ trace = <<>>

IdleSave ==
    /\ dest_uri = <<>>
    /\ dest = [kind |-> "absent", by |-> "old"]
    /\ save_args = [c \in SaveCalls |-> [format_hint |-> None, mode |-> "overwrite"]]
    /\ save_pc = [c \in SaveCalls |-> "returned"]
    /\ save_err = [c \in SaveCalls |-> ""]
    /\ trace = <<>>

\* lines 105-108: the mode check, then FileParser(uri, format_hint).assert_no_glob()
ValidationError(uri, args) ==
    LET p == FileParser(uri, args.format_hint)
    IN  IF args.mode \notin {"overwrite", "error"} THEN "NotImplementedError"
        ELSE IF p.err # "" THEN p.err
        ELSE assert_no_glob(p)

SaveValidate(c) ==
    /\ save_pc[c] = "validate"
    /\ LET e == ValidationError(dest_uri, save_args[c])
       IN  /\ save_pc' = [save_pc EXCEPT ![c] = IF e = "" THEN "exists" ELSE "raised"]
           /\ save_err' = [save_err EXCEPT ![c] = e]
    /\ UNCHANGED <<dest_uri, dest, save_args, trace, notSave>>

\* lines 111-112
SaveExists(c) ==
    /\ save_pc[c] = "exists"
    /\ trace' = Append(trace, Event(c, "exists", fs_exists(dest), dest.kind))
    /\ IF ~fs_exists(dest)
       THEN /\ save_pc' = [save_pc EXCEPT ![c] = "save"]
            /\ UNCHANGED save_err
       ELSE IF MayReplace(save_args[c].mode)
       THEN /\ save_pc' = [save_pc EXCEPT ![c] = "remove"]
            /\ UNCHANGED save_err
       ELSE /\ save_pc' = [save_pc EXCEPT ![c] = "raised"]
            /\ save_err' = [save_err EXCEPT ![c] = "FileExistsError"]
    /\ UNCHANGED <<dest_uri, dest, save_args, notSave>>

\* line 114: fs.remove(uri) removes a file; it raises on a directory and on
\* a missing path, and may raise on a file (an I/O failure)
SaveRemove(c) ==
    /\ save_pc[c] = "remove"
    /\ \E ok \in BOOLEAN :
          /\ ok => dest.kind = "file"
          /\ trace' = Append(trace, Event(c, "remove", ok, dest.kind))
          /\ dest' = IF ok THEN [kind |-> "absent", by |-> c] ELSE dest
          /\ save_pc' = [save_pc EXCEPT ![c] = AfterRemove(ok)]
    /\ UNCHANGED <<dest_uri, save_args, save_err, notSave>>

\* line 117: fs.removetree(uri) removes a directory; it raises on a file and
\* on a missing path, and may raise on a directory
SaveRemoveTree(c) ==
    /\ save_pc[c] = "removetree"
    /\ \E ok \in BOOLEAN :
          /\ ok => dest.kind = "dir"
          /\ trace' = Append(trace, Event(c, "removetree", ok, dest.kind))
          /\ dest' = IF ok THEN [kind |-> "absent", by |-> c] ELSE dest
          /\ save_pc' = [save_pc EXCEPT ![c] = AfterRemoveTree(ok)]
          /\ save_err' = [save_err EXCEPT ![c] =
                             IF AfterRemoveTree(ok) = "raised" THEN "OSError" ELSE ""]
    /\ UNCHANGED <<dest_uri, save_args, notSave>>

\* line 120: _FORMAT_SAVE[p.file_format](df, p, **kwargs); the saver writes
\* the file or raises (always when the path is still a directory)
SaveWrite(c) ==
    /\ save_pc[c] = "save"
    /\ \E ok \in BOOLEAN :
          /\ ok => dest.kind # "dir"
          /\ trace' = Append(trace, Event(c, "save", ok, dest.kind))
          /\ dest' = IF ok THEN [kind |-> "file", by |-> c] ELSE dest
          /\ save_pc' = [save_pc EXCEPT ![c] = IF ok THEN "returned" ELSE "raised"]
          /\ save_err' = [save_err EXCEPT ![c] = IF ok THEN "" ELSE "SaverError"]
    /\ UNCHANGED <<dest_uri, save_args, notSave>>

NextSave ==
    \E c \in SaveCalls :
        \/ SaveValidate(c)
        \/ SaveExists(c)
        \/ SaveRemove(c)
        \/ SaveRemoveTree(c)
        \/ SaveWrite(c)

\* ------------------------------------------------------- claims on save_df
\* the file-system and saver calls of one save_df call, in order
Events(c) == SelectSeq(trace, LAMBDA e : e.call = c)

Ops(c) == [i \in 1..Len(Events(c)) |-> Events(c)[i].op]

Finished(c) == save_pc[c] \in {"returned", "raised"}

\* the destination parses: a supported format and no glob pattern
ValidDestination(c) ==
    /\ FileParser(dest_uri, save_args[c].format_hint).err = ""
    /\ assert_no_glob(FileParser(dest_uri, save_args[c].format_hint)) = ""

\* the destination that was there before the calls is still there
StillExists == dest.kind # "absent" /\ dest.by = "old"

\* C3 as stated: every finished mode="error" call on a destination that
\* exists failed with FileExistsError and made no remove, removetree or
\* saver call.
C3_Original ==
    \A c \in SaveCalls :
        (save_args[c].mode = "error" /\ Finished(c) /\ StillExists)
            => /\ save_err[c] = "FileExistsError"
               /\ \A i \in 1..Len(Ops(c)) : Ops(c)[i] = "exists"

\* C3 amended: every mode="error" call whose destination parses (supported
\* format, no glob) and for which fs.exists is true fails with
\* FileExistsError, and its only file-system call is that exists check:
\* no remove, no removetree, no saver.
C3_ErrorModeKeepsExisting ==
    \A c \in SaveCalls :
        save_args[c].mode = "error" =>
            /\ (Len(Events(c)) > 0 /\ Events(c)[1].ok)
                   => /\ save_pc[c] = "raised"
                      /\ save_err[c] = "FileExistsError"
                      /\ Ops(c) = <<"exists">>
            /\ (Finished(c) /\ ValidDestination(c) /\ StillExists)
                   => /\ save_err[c] = "FileExistsError"
                      /\ Ops(c) = <<"exists">>

C3_Witness ==
    \E c \in SaveCalls :
        /\ save_args[c].mode = "error"
        /\ dest_uri = <<"out", ".", "csv">>
        /\ dest = [kind |-> "file", by |-> "old"]
        /\ save_err[c] = "FileExistsError"

\* C4: a mode="overwrite" call on a valid non-glob destination tries
\* fs.remove first when the destination exists, fs.removetree if and only
\* if fs.remove failed, goes on whatever fs.removetree did, makes no removal
\* when the destination does not exist, and invokes the saver exactly once,
\* after every removal attempt.
C4_OverwriteSequence ==
    \A c \in SaveCalls :
        (save_args[c].mode = "overwrite" /\ ValidDestination(c)) =>
            LET ev == Events(c)
                ops == Ops(c)
            IN  /\ \A i \in 1..Len(ops) : ops[i] = "save" => i = Len(ops)
                /\ \A i \in 1..Len(ops) : ops[i] = "removetree" =>
                       i = 3 /\ ops[2] = "remove" /\ ~ev[2].ok
                /\ Finished(c) =>
                       /\ Len(ev) >= 2
                       /\ ops[1] = "exists"
                       /\ IF ~ev[1].ok THEN ops = <<"exists", "save">>
                          ELSE IF ev[2].ok THEN ops = <<"exists", "remove", "save">>
                          ELSE ops = <<"exists", "remove", "removetree", "save">>

\* both removals failed and the saver was still invoked
C4_Witness ==
    \E c \in SaveCalls :
        /\ save_args[c].mode = "overwrite"
        /\ save_pc[c] = "returned"
        /\ Ops(c) = <<"exists", "remove", "removetree", "save">>
        /\ ~Events(c)[3].ok

\* a mode="error" call invoked its saver on a destination that existed
Clobbered(c) ==
    /\ save_args[c].mode = "error"
    /\ \E i \in 1..Len(trace) :
          /\ trace[i].call = c
          /\ trace[i].op = "save"
          /\ trace[i].onto # "absent"

\* the two calls' steps are interleaved: not a sequential execution
Interleaved ==
    \E i, j, k \in 1..Len(trace) :
        /\ i < j /\ j < k
        /\ trace[i].call = trace[k].call
        /\ trace[i].call # trace[j].call

\* C10: in every sequential execution of the two calls a mode="error" save
\* never invokes its saver on an existing destination; the concurrent
\* execution reaches a state where it does (the witness).
C10_SequentialNeverClobbers ==
    \A c \in SaveCalls : Clobbered(c) => Interleaved

\* the race: c saw the destination absent, the other call wrote it, and
\* then c's saver was invoked on it
C10_Race ==
    \E c \in SaveCalls : \E i, j, k \in 1..Len(trace) :
        /\ i < j /\ j < k
        /\ save_args[c].mode = "error"
        /\ trace[i] = Event(c, "exists", FALSE, "absent")
        /\ trace[j].call # c /\ trace[j].op = "save" /\ trace[j].ok
        /\ trace[k].call = c /\ trace[k].op = "save" /\ trace[k].onto = "file"

\* ----------------------------------------------------------- Python values
\* A Python value is its type and its str(); an option that is not given is
\* Absent.
PyVal(t, v) == [t |-> t, v |-> v]

Absent == PyVal("absent", "")
PyNone == PyVal("NoneType", "None")
PyTrue == PyVal("bool", "True")
PyFalse == PyVal("bool", "False")

\* str(x)
Str(x) == x.v

\* bool(x)
Truthy(x) ==
    CASE x.t = "NoneType" -> FALSE
      [] x.t = "bool"     -> x.v = "True"
      [] x.t = "int"      -> x.v # "0"
      [] x.t = "str"      -> x.v # ""
      [] x.t = "list"     -> x.v # "[]"
      [] OTHER            -> TRUE

\* the columns argument: None, a list of names, or a schema expression
ColumnsNone == PyNone
ColumnsList == PyVal("list", "['a', 'b']")
ColumnsSchema == PyVal("Schema", "a:int,b:str")

\* the keys of an option bag that are given
Keys(kw) == {k \in DOMAIN kw : kw[k] # Absent}

\* ---------------------------------------------------------------- _load_csv
NoRead == [made |-> FALSE, header |-> "", names |-> Absent, passed |-> {}]

CsvOutcome(err, read, schema) == [err |-> err, read |-> read, schema |-> schema]

\* lines 172-176 and 178-180: the options left for pd.read_csv
CsvPassed(kwargs) ==
    LET infer_schema == IF kwargs.infer_schema # Absent
                        THEN kwargs.infer_schema ELSE PyFalse
    IN  (Keys(kwargs) \ {"infer_schema", "header"})
            \cup (IF ~Truthy(infer_schema) THEN {"dtype"} ELSE {})

\* a header test on the value instead of on its str()
HeaderRow_ByValue(header) == header = PyTrue \/ header = PyVal("int", "0")

\* line 181: str(header) in ["True", "0"]
HeaderRow(header) == Str(header) \in {"True", "0"}

\* line 189: header is None or str(header) == "False"
Headerless(header) == header.t = "NoneType" \/ Str(header) = "False"

\* lines 168-203
_load_csv(columns, kwargs) ==
    LET header == IF kwargs.header # Absent THEN kwargs.header ELSE PyFalse
        Read(h, names) == [made |-> TRUE, header |-> h, names |-> names,
                           passed |-> CsvPassed(kwargs)]
    IN  IF HeaderRow(header)
        THEN CsvOutcome("", Read("0", Absent),
                        IF columns.t \in {"NoneType", "list"} THEN PyNone ELSE columns)
        ELSE IF Headerless(header)
        THEN IF columns.t = "NoneType"
             THEN CsvOutcome("InvalidOperationError", NoRead, PyNone)
             ELSE CsvOutcome("", Read("None", columns),
                             IF columns.t = "list" THEN PyNone ELSE columns)
        ELSE CsvOutcome("NotImplementedError", NoRead, PyNone)

HeaderValues ==
    { Absent, PyNone, PyTrue, PyFalse, PyVal("int", "0"), PyVal("int", "1"),
      PyVal("str", "True"), PyVal("str", "0"), PyVal("str", "False"),
      PyVal("str", "infer") }

CsvKwargs ==
    [header : HeaderValues,
     infer_schema : {Absent, PyTrue, PyFalse},
     sep : {Absent, PyVal("str", ",")}]

Uncalled == CsvOutcome("uncalled", NoRead, PyNone)

InitCsv ==
    /\ csv_columns \in {ColumnsNone, ColumnsList, ColumnsSchema}
    /\ csv_kwargs \in CsvKwargs
    /\ csv_result = Uncalled

IdleCsv ==
    /\ csv_columns = ColumnsNone
    /\ csv_kwargs = [header |-> Absent, infer_schema |-> Absent, sep |-> Absent]
    /\ csv_result = Uncalled

LoadCsv ==
    /\ csv_result = Uncalled
    /\ csv_result' = _load_csv(csv_columns, csv_kwargs)
    /\ UNCHANGED <<csv_columns, csv_kwargs, notCsv>>

NextCsv == LoadCsv

\* ------------------------------------------------------- claims on _load_csv
\* header absent, False or None
NoHeaderGiven == csv_kwargs.header \in {Absent, PyFalse, PyNone}

\* header True or 0
HeaderGiven == csv_kwargs.header \in {PyTrue, PyVal("int", "0")}

CsvDone == csv_result # Uncalled

\* the three cases of C8 that hold as stated, and the options never passed on
C8_Cases ==
    /\ (NoHeaderGiven /\ csv_columns = ColumnsNone)
           => /\ csv_result.err = "InvalidOperationError"
              /\ ~csv_result.read.made
    /\ (NoHeaderGiven /\ csv_columns # ColumnsNone)
           => /\ csv_result.err = ""
              /\ csv_result.read.made
              /\ csv_result.read.header = "None"
              /\ csv_result.read.names = csv_columns
    /\ HeaderGiven
           => /\ csv_result.err = ""
              /\ csv_result.read.made
              /\ csv_result.read.header = "0"
    /\ csv_result.read.made
           => /\ "header" \notin csv_result.read.passed
              /\ "infer_schema" \notin csv_result.read.passed

\* C8 as stated: the three cases, and every other header value fails with
\* NotImplementedError.
C8_Original ==
    CsvDone =>
        /\ C8_Cases
        /\ (~NoHeaderGiven /\ ~HeaderGiven)
               => csv_result.err = "NotImplementedError"

\* C8 amended: as stated, except that the header is told apart by its
\* str(): the strings "True" and "0" read the file with a header row like
\* True and 0, the string "False" reads it headerless like False, and only a
\* header whose str() is none of "True", "0", "False" and that is not None
\* fails with NotImplementedError.
C8_HeaderByStr ==
    CsvDone =>
        /\ C8_Cases
        /\ (csv_kwargs.header # Absent
               /\ csv_kwargs.header.t # "NoneType"
               /\ Str(csv_kwargs.header) \notin {"True", "0", "False"})
               => /\ csv_result.err = "NotImplementedError"
                  /\ ~csv_result.read.made
        /\ Str(csv_kwargs.header) \in {"True", "0"}
               => /\ csv_result.err = ""
                  /\ csv_result.read.header = "0"
        /\ (Str(csv_kwargs.header) = "False" /\ csv_columns # ColumnsNone)
               => /\ csv_result.err = ""
                  /\ csv_result.read.header = "None"
                  /\ csv_result.read.names = csv_columns

\* header="True" (a string) read with a header row
C8_Witness ==
    /\ csv_kwargs.header = PyVal("str", "True")
    /\ csv_result.err = ""
    /\ csv_result.read.made
    /\ csv_result.read.header = "0"

\* ---------------------------------------------------------------- _save_avro
NoWrite == [made |-> FALSE, schema |-> Absent, append |-> Absent]

AvroOutcome(err, write) == [err |-> err, write |-> write]

\* lines 252-262: the value bound to `schema` (Absent: the name is unbound)
\* and the exception raised on the way
AvroSchemaBlock(columns, kwargs) ==
    IF kwargs.schema = Absent THEN [err |-> "", schema |-> Absent]
    ELSE IF kwargs.schema.t # "NoneType" /\ Truthy(columns)
    THEN [err |-> "Exception", schema |-> kwargs.schema]
    ELSE LET schema == IF kwargs.schema.t = "NoneType" /\ columns.t # "NoneType"
                       THEN columns ELSE kwargs.schema
         IN  IF kwargs.infer_schema = Absent
             THEN [err |-> "KeyError", schema |-> schema]
             ELSE [err |-> "", schema |-> schema]

\* lines 264-269: reached with "infer_schema" in kw only when "schema" is
\* not, so `schema` is unbound when the test reads it
AvroInferBlock(kwargs) ==
    IF kwargs.schema = Absent /\ kwargs.infer_schema # Absent
           /\ Truthy(kwargs.infer_schema)
    THEN "UnboundLocalError" ELSE ""

\* lines 271-274: "append" in kw["append"]; the value bound to `append`
AvroAppendBlock(kwargs) ==
    IF kwargs.append = Absent THEN [err |-> "KeyError", append |-> Absent]
    ELSE IF kwargs.append.t \in {"bool", "int", "NoneType"}
    THEN [err |-> "TypeError", append |-> Absent]
    ELSE IF kwargs.append.v \in {"append", "['append']"}
    THEN [err |-> "", append |-> kwargs.append]
    ELSE [err |-> "", append |-> Absent]

\* lines 286-288: the arguments are evaluated left to right, then **kw is
\* merged: "schema" is still in kw when it was given
AvroCall(schema, append, kwargs) ==
    IF schema = Absent \/ append = Absent \/ kwargs.times_as_micros = Absent
    THEN AvroOutcome("UnboundLocalError", NoWrite)
    ELSE IF kwargs.schema # Absent
    THEN AvroOutcome("TypeError", NoWrite)
    ELSE AvroOutcome("", [made |-> TRUE, schema |-> schema, append |-> append])

\* lines 244-288
_save_avro(columns, kwargs) ==
    LET s == AvroSchemaBlock(columns, kwargs)
        a == AvroAppendBlock(kwargs)
    IN  IF s.err # "" THEN AvroOutcome(s.err, NoWrite)
        ELSE IF AvroInferBlock(kwargs) # "" THEN AvroOutcome(AvroInferBlock(kwargs), NoWrite)
        ELSE IF a.err # "" THEN AvroOutcome(a.err, NoWrite)
        ELSE AvroCall(s.schema, a.append, kwargs)

AvroSchema == PyVal("dict", "{'type': 'record'}")

AvroKwargs ==
    [schema : {Absent, PyNone, AvroSchema},
     infer_schema : {Absent, PyTrue, PyFalse},
     append : {Absent, PyTrue, PyFalse, PyVal("str", "append"),
               PyVal("list", "['append']"), PyVal("str", "no")},
     times_as_micros : {Absent, PyTrue, PyFalse}]

AvroColumns == {ColumnsNone, PyVal("list", "[]"), ColumnsList, ColumnsSchema}

AvroUncalled == AvroOutcome("uncalled", NoWrite)

InitAvro ==
    /\ avro_columns \in AvroColumns
    /\ avro_kwargs \in AvroKwargs
    /\ avro_result = AvroUncalled

IdleAvro ==
    /\ avro_columns = ColumnsNone
    /\ avro_kwargs = [schema |-> Absent, infer_schema |-> Absent,
                      append |-> Absent, times_as_micros |-> Absent]
    /\ avro_result = AvroUncalled

SaveAvro ==
    /\ avro_result = AvroUncalled
    /\ avro_result' = _save_avro(avro_columns, avro_kwargs)
    /\ UNCHANGED <<avro_columns, avro_kwargs, notAvro>>

NextAvro == SaveAvro

\* ------------------------------------------------------ claims on _save_avro
\* C9: an Avro save with a non-null schema, no columns and no append,
\* infer_schema or times_as_micros option does not fail in option handling:
\* the writer is invoked with the given schema and append = false; and a
\* save with both a non-null schema and non-empty columns fails before the
\* writer is invoked.
C9_SchemaOnlySave ==
    avro_result # AvroUncalled =>
        /\ (/\ avro_kwargs.schema \notin {Absent, PyNone}
            /\ avro_columns = ColumnsNone
            /\ avro_kwargs.append = Absent
            /\ avro_kwargs.infer_schema = Absent
            /\ avro_kwargs.times_as_micros = Absent)
               => /\ avro_result.err = ""
                  /\ avro_result.write.made
                  /\ avro_result.write.schema = avro_kwargs.schema
                  /\ ~Truthy(avro_result.write.append)
        /\ (avro_kwargs.schema \notin {Absent, PyNone} /\ Truthy(avro_columns))
               => /\ avro_result.err # ""
                  /\ ~avro_result.write.made

\* ------------------------------------------------------------ the file system
\* One directory, d.parquet, that holds files only; a listing returns its
\* names in a fixed order.  File names hold no "*" and no "?".
Dir == <<"d", ".", "parquet">>

EntryPool ==
    { <<"a", ".", "parquet">>,
      <<"b", ".", "parquet">>,
      <<"c", ".", "txt">>,
      <<"b", ".", "csv">>,
      <<".", "parquet">> }

Listings ==
    {l \in UNION {[1..n -> EntryPool] : n \in 0..MaxEntries} :
        \A i, j \in 1..Len(l) : l[i] = l[j] => i = j}

\* the symbols that are one character long
SingleChars == {".", "\\", "a", "b", "c", "d"}

\* shell-style matching of a name against a pattern: "*" matches any run of
\* characters other than "/", "?" one character
RECURSIVE Match(_, _)
Match(pattern, name) ==
    IF pattern = <<>> THEN name = <<>>
    ELSE IF Head(pattern) = "*"
    THEN \/ Match(Tail(pattern), name)
         \/ name # <<>> /\ Head(name) # "/" /\ Match(pattern, Tail(name))
    ELSE IF Head(pattern) = "?"
    THEN name # <<>> /\ Head(name) \in SingleChars /\ Match(Tail(pattern), Tail(name))
    ELSE name # <<>> /\ Head(name) = Head(pattern) /\ Match(Tail(pattern), Tail(name))

\* line 135: fs.isdir(uri)
fs_isdir(uri) == uri = Dir

\* line 132: the base names of fs.opendir(uri).glob(pattern)
fs_glob(ls, pattern) == SelectSeq(ls, LAMBDA n : Match(pattern, n))

\* line 136: the names of fs.filterdir(uri, files=["*." + file_format])
fs_filterdir(ls, file_format) ==
    SelectSeq(ls, LAMBDA n : Match(<<"*", ".", file_format>>, n))

\* the file at uri is there to be read
fs_isfile(ls, uri) == \E i \in 1..Len(ls) : uri = os_path_join(Dir, ls[i])

\* ------------------------------------------------------------- the loaders
\* a schema returned for a plain list of names too
SchemaOf_Always(columns) == columns

\* lines 151-161, 183-188, 214-219, 314-320: the schema a loader returns
SchemaOf(columns) ==
    IF columns.t = "NoneType" THEN PyNone
    ELSE IF columns.t = "list" THEN PyNone
    ELSE columns

\* lines 333-338 and 92: _FORMAT_LOAD[file_format](f, columns, **kwargs)
FORMAT_LOAD(file_format, columns, kwargs) ==
    IF file_format = "csv"
    THEN [err |-> _load_csv(columns, kwargs).err,
          schema |-> IF _load_csv(columns, kwargs).err = ""
                     THEN SchemaOf(columns) ELSE PyNone]
    ELSE [err |-> "", schema |-> SchemaOf(columns)]

\* --------------------------------------------- load_df and _get_single_files
LoadUris ==
    { Dir,
      Dir \o <<"/", "*">>,
      Dir \o <<"/", "*", ".", "parquet">>,
      Dir \o <<"/", "a", ".", "parquet">>,
      <<"*", ".", "parquet">> }

UriLists == {<<u>> : u \in LoadUris} \cup {<<u, v>> : u, v \in LoadUris}

LoadHints == {None, "parquet", "csv"}

LoadKwargs ==
    {[header |-> h, infer_schema |-> Absent, sep |-> Absent] : h \in {Absent, PyTrue}}

NoError == [type |-> "", at |-> ""]

NoResult == [rows |-> <<>>, schema |-> PyNone]

InitLoad ==
    /\ listing \in Listings
    /\ load_uri \in UriLists
    /\ load_hint \in LoadHints
    /\ load_columns \in {ColumnsNone, ColumnsList, ColumnsSchema}
    /\ load_kwargs \in LoadKwargs
    /\ stack = <<>>
    /\ yielded = <<>>
    /\ loads = <<>>
    /\ dfs = <<>>
    /\ load_schema = PyNone
    /\ load_pc = "parse"
    /\ load_err = NoError
    /\ load_result = NoResult

IdleLoad ==
    /\ listing = <<>>
    /\ load_uri = <<>>
    /\ load_hint = None
    /\ load_columns = ColumnsNone
    /\ load_kwargs = [header |-> Absent, infer_schema |-> Absent, sep |-> Absent]
    /\ stack = <<>>
    /\ yielded = <<>>
    /\ loads = <<>>
    /\ dfs = <<>>
    /\ load_schema = PyNone
    /\ load_pc = "returned"
    /\ load_err = NoError
    /\ load_result = NoResult

Raise(type, at) ==
    /\ load_pc' = "raised"
    /\ load_err' = [type |-> type, at |-> at]

Top == stack[Len(stack)]

\* the frames with the first item of the innermost one consumed
Advance == [stack EXCEPT ![Len(stack)].items = Tail(@)]

\* lines 85-88: one FileParser per input path, each with the hint
LoadParse ==
    /\ load_pc = "parse"
    /\ LET fps == [i \in 1..Len(load_uri) |->
                      [fp |-> FileParser(load_uri[i], load_hint), src |-> i]]
       IN  IF \E i \in 1..Len(fps) : fps[i].fp.err # ""
           THEN Raise("NotImplementedError", "parse") /\ UNCHANGED stack
           ELSE /\ stack' = <<[kind |-> "fps", items |-> fps]>>
                /\ load_pc' = "enumerate"
                /\ UNCHANGED load_err
    /\ UNCHANGED <<loadArgs, yielded, loads, dfs, load_schema, load_result, notLoad>>

\* the generator runs only when load_df's loop asks for the next file
Enumerating ==
    /\ load_pc = "enumerate"
    /\ Len(loads) = Len(yielded)
    /\ stack # <<>>

\* lines 129-134: a glob pattern: the parsers of the matches are built, with
\* no format hint, and enumerated in turn
EnumGlob ==
    /\ Enumerating
    /\ Top.kind = "fps" /\ Top.items # <<>>
    /\ Head(Top.items).fp.glob_pattern # <<>>
    /\ LET f == Head(Top.items)
           names == fs_glob(listing, f.fp.glob_pattern)
           files == [i \in 1..Len(names) |->
                        [fp |-> FileParser(os_path_join(f.fp.uri, names[i]), None),
                         src |-> f.src]]
       IN  IF ~fs_isdir(f.fp.uri)
           THEN Raise("ResourceNotFound", "enumerate") /\ UNCHANGED stack
           ELSE IF \E i \in 1..Len(files) : files[i].fp.err # ""
           THEN Raise("NotImplementedError", "enumerate") /\ UNCHANGED stack
           ELSE /\ stack' = Append(Advance, [kind |-> "fps", items |-> files])
                /\ UNCHANGED <<load_pc, load_err>>
    /\ UNCHANGED <<loadArgs, yielded, loads, dfs, load_schema, load_result, notLoad>>

\* lines 135-136: a directory: its entries that match "*." + file_format
EnumDir ==
    /\ Enumerating
    /\ Top.kind = "fps" /\ Top.items # <<>>
    /\ Head(Top.items).fp.glob_pattern = <<>>
    /\ fs_isdir(Head(Top.items).fp.uri)
    /\ LET f == Head(Top.items)
           names == fs_filterdir(listing, f.fp.file_format)
       IN  stack' = Append(Advance,
                          [kind |-> "dir",
                           items |-> [i \in 1..Len(names) |->
                                         [name |-> names[i], base |-> f.fp.uri,
                                          src |-> f.src]]])
    /\ UNCHANGED <<loadArgs, yielded, loads, dfs, load_schema, load_pc, load_err,
                   load_result, notLoad>>

\* line 137: the parser of one directory entry, built with no format hint
EnumYieldEntry ==
    /\ Enumerating
    /\ Top.kind = "dir" /\ Top.items # <<>>
    /\ LET x == Head(Top.items)
           f == FileParser(os_path_join(x.base, x.name), None)
       IN  IF f.err # ""
           THEN Raise(f.err, "enumerate") /\ UNCHANGED <<stack, yielded>>
           ELSE /\ yielded' = Append(yielded, [fp |-> f, src |-> x.src])
                /\ stack' = Advance
                /\ UNCHANGED <<load_pc, load_err>>
    /\ UNCHANGED <<loadArgs, loads, dfs, load_schema, load_result, notLoad>>

\* lines 138-139: anything else is yielded as it is
EnumYield ==
    /\ Enumerating
    /\ Top.kind = "fps" /\ Top.items # <<>>
    /\ Head(Top.items).fp.glob_pattern = <<>>
    /\ ~fs_isdir(Head(Top.items).fp.uri)
    /\ yielded' = Append(yielded, Head(Top.items))
    /\ stack' = Advance
    /\ UNCHANGED <<loadArgs, loads, dfs, load_schema, load_pc, load_err,
                   load_result, notLoad>>

\* the end of a for loop of the generator: the frame returns; the outermost
\* one ends the loop of load_df
EnumReturn ==
    /\ Enumerating
    /\ Top.items = <<>>
    /\ stack' = SubSeq(stack, 1, Len(stack) - 1)
    /\ load_pc' = IF Len(stack) = 1 THEN "concat" ELSE load_pc
    /\ UNCHANGED <<loadArgs, yielded, loads, dfs, load_schema, load_err,
                   load_result, notLoad>>

\* lines 92-93: the loader of the file's format, on f.assert_no_glob()
LoadFile ==
    /\ load_pc = "enumerate"
    /\ Len(loads) < Len(yielded)
    /\ LET f == yielded[Len(loads) + 1].fp
           r == FORMAT_LOAD(f.file_format, load_columns, load_kwargs)
           call == [file_format |-> f.file_format, uri |-> f.uri,
                    columns |-> load_columns]
       IN  IF assert_no_glob(f) # ""
           THEN /\ Raise(assert_no_glob(f), "load")
                /\ loads' = Append(loads, [call EXCEPT !.file_format = ""])
                /\ UNCHANGED <<dfs, load_schema>>
           ELSE /\ loads' = Append(loads, call)
                /\ IF r.err # ""
                   THEN Raise(r.err, "load") /\ UNCHANGED <<dfs, load_schema>>
                   ELSE IF ~fs_isfile(listing, f.uri)
                   THEN Raise("FileNotFoundError", "load")
                            /\ UNCHANGED <<dfs, load_schema>>
                   ELSE /\ dfs' = Append(dfs, f.uri)
                        /\ load_schema' = r.schema
                        /\ UNCHANGED <<load_pc, load_err>>
    /\ UNCHANGED <<loadArgs, stack, yielded, load_result, notLoad>>

\* line 94: PandasDataFrame(pd.concat(dfs), schema); pd.concat raises on an
\* empty list
LoadConcat ==
    /\ load_pc = "concat"
    /\ IF dfs = <<>>
       THEN Raise("ValueError", "concat") /\ UNCHANGED load_result
       ELSE /\ load_result' = [rows |-> dfs, schema |-> load_schema]
            /\ load_pc' = "returned"
            /\ UNCHANGED load_err
    /\ UNCHANGED <<loadArgs, stack, yielded, loads, dfs, load_schema, notLoad>>

NextLoad ==
    \/ LoadParse
    \/ EnumGlob
    \/ EnumDir
    \/ EnumYieldEntry
    \/ EnumYield
    \/ EnumReturn
    \/ LoadFile
    \/ LoadConcat

\* ------------------------------------- claims on the enumerator and load_df
\* the format resolved for the i-th input path
InputFormat(i) == FileParser(load_uri[i], load_hint).file_format

\* C5: every parser the enumerator yields has an empty glob pattern and the
\* format resolved for the input it was expanded from (so a format hint is
\* the format of every file a glob matches).
C5_YieldedKeepInputFormat ==
    \A i \in 1..Len(yielded) :
        /\ yielded[i].fp.glob_pattern = <<>>
        /\ yielded[i].fp.file_format = InputFormat(yielded[i].src)

\* the enumeration of the i-th input is over: the generator was exhausted,
\* or it raised while it was yielding the entries of that input
EnumEnded(i) ==
    \/ load_pc \in {"concat", "returned"}
    \/ load_pc = "raised" /\ load_err.at = "concat"
    \/ /\ load_pc = "raised" /\ load_err.at = "enumerate"
       /\ Top.kind = "dir"
       /\ Head(Top.items).src = i

\* what C6 expects of the i-th input, a directory: one path per entry that
\* matches "*." + F, in listing order
ExpectedOfDir(i) ==
    LET names == SelectSeq(listing, LAMBDA n : Match(<<"*", ".", InputFormat(i)>>, n))
    IN  [k \in 1..Len(names) |-> os_path_join(load_uri[i], names[k])]

YieldedOf(i) ==
    LET ys == SelectSeq(yielded, LAMBDA y : y.src = i)
    IN  [k \in 1..Len(ys) |-> ys[k].fp.uri]

\* C6: for a non-glob input that is an existing directory the enumerator
\* yields exactly one parser per entry whose name matches "*." + F and
\* nothing else, none twice, in listing order; and over a list of inputs
\* the outputs come in input order.
C6_DirectoryEnumeration ==
    /\ \A i, j \in 1..Len(yielded) : i < j => yielded[i].src <= yielded[j].src
    /\ \A i \in 1..Len(load_uri) :
           (load_uri[i] = Dir /\ EnumEnded(i)) => YieldedOf(i) = ExpectedOfDir(i)

\* C7: when load_df returns, a loader was invoked once per enumerated file,
\* in enumeration order, that of the file's format and each with the same
\* columns; the rows are the files' rows in that order; the schema is the
\* one the loader of the last file returned: none when columns is None or a
\* list of names, the requested schema when columns is a schema.
C7_LoadResult ==
    load_pc = "returned" =>
        /\ Len(yielded) >= 1
        /\ Len(loads) = Len(yielded)
        /\ \A i \in 1..Len(loads) :
               loads[i] = [file_format |-> yielded[i].fp.file_format,
                           uri |-> yielded[i].fp.uri,
                           columns |-> load_columns]
        /\ load_result.rows = [i \in 1..Len(yielded) |-> yielded[i].fp.uri]
        /\ load_result.schema = load_schema
        /\ load_columns.t \in {"NoneType", "list"} => load_result.schema = PyNone
        /\ load_columns.t = "Schema" => load_result.schema = load_columns

\* two files loaded with a schema
C7_Witness ==
    /\ load_pc = "returned"
    /\ Len(loads) >= 2
    /\ load_columns = ColumnsSchema
    /\ load_result.schema = ColumnsSchema
    /\ Len(load_result.rows) = Len(loads)

\* ------------------------------------------------------- the specifications
InitParserSpec == InitParser /\ IdleSave /\ IdleCsv /\ IdleAvro /\ IdleLoad

InitSaveSpec == InitSave /\ IdleParser /\ IdleCsv /\ IdleAvro /\ IdleLoad

InitCsvSpec == InitCsv /\ IdleParser /\ IdleSave /\ IdleAvro /\ IdleLoad

InitAvroSpec == InitAvro /\ IdleParser /\ IdleSave /\ IdleCsv /\ IdleLoad

InitLoadSpec == InitLoad /\ IdleParser /\ IdleSave /\ IdleCsv /\ IdleAvro

SpecLoad == InitLoadSpec /\ [][NextLoad]_vars

SpecCsv == InitCsvSpec /\ [][NextCsv]_vars

SpecAvro == InitAvroSpec /\ [][NextAvro]_vars

SpecParser == InitParserSpec /\ [][NextParser]_vars

SpecSave == InitSaveSpec /\ [][NextSave]_vars

=============================================================================
